---------------------------- MODULE Spec2Model ----------------------------
(***************************************************************************)
(* A model of the champion-statistics pipeline:                            *)
(*   webscraper.py     get_champion_stats, aggregate_champion_stats        *)
(*   sheet_summary.py  RateLimiter, fetch_stats, build_player_summaries    *)
(*                                                                         *)
(* Text is modelled as a sequence of one-character strings, so that the    *)
(* parsing, cleaning and formatting the code does can be computed.         *)
(* Floating point values are modelled as exact decimals: a value v is the  *)
(* integer v * Scale.  The inputs of the model have at most FracDigits     *)
(* fractional digits, so that parsing them is exact.                       *)
(***************************************************************************)
EXTENDS Integers, Sequences, FiniteSets, TLC

(***************************************************************************)
(* Bounds of the model.                                                    *)
(***************************************************************************)
FracDigits == 1
MaxRows == 3
MaxTextLen == 6

(***************************************************************************)
(* Characters.  Alphabet lists the characters the model uses in code point *)
(* order; Code is monotone in the code point, which is all that Python's   *)
(* string comparison reads.                                                *)
(***************************************************************************)
Alphabet ==
  << "\n", " ", "%", ",", ".", "/", "0", "1", "2", "3", "4", "5", "6", "7",
     "8", "9", "A", "B", "C", "D", "E", "F", "G", "H", "I", "J", "K", "L",
     "M", "N", "O", "P", "Q", "R", "S", "T", "U", "V", "W", "X", "Y", "Z",
     "a", "b", "c", "d", "e", "f", "g", "h", "i", "j", "k", "l", "m", "n",
     "o", "p", "q", "r", "s", "t", "u", "v", "w", "x", "y", "z" >>

Code(c) == CHOOSE i \in 1..Len(Alphabet) : Alphabet[i] = c

DigitChars == << "0", "1", "2", "3", "4", "5", "6", "7", "8", "9" >>

IsDigit(c) == \E i \in 1..10 : DigitChars[i] = c

DigitVal(c) == (CHOOSE i \in 1..10 : DigitChars[i] = c) - 1

RECURSIVE Pow10(_)
Pow10(n) == IF n <= 0 THEN 1 ELSE 10 * Pow10(n - 1)

Scale == Pow10(FracDigits)

(* str.isdigit(): a non-empty string of digits. *)
IsDigitStr(s) == Len(s) > 0 /\ \A i \in 1..Len(s) : IsDigit(s[i])

(* int() of a string of digits (0 for the empty string, used for the parts  *)
(* of a float literal).                                                     *)
RECURSIVE IntOfDigits(_)
IntOfDigits(s) ==
  IF Len(s) = 0 THEN 0
  ELSE 10 * IntOfDigits(SubSeq(s, 1, Len(s) - 1)) + DigitVal(s[Len(s)])

(* str(n) of a natural number. *)
RECURSIVE NatToStr(_)
NatToStr(n) ==
  IF n < 10 THEN << DigitChars[n + 1] >>
  ELSE NatToStr(n \div 10) \o << DigitChars[(n % 10) + 1] >>

(* Python's < on strings: lexicographic on code points. *)
RECURSIVE StrLess(_, _)
StrLess(a, b) ==
  IF Len(b) = 0 THEN FALSE
  ELSE IF Len(a) = 0 THEN TRUE
  ELSE IF a[1] = b[1] THEN StrLess(Tail(a), Tail(b))
  ELSE Code(a[1]) < Code(b[1])

(* s.replace('.', '') *)
RemoveDots(s) == SelectSeq(s, LAMBDA c : c # ".")

CountDots(s) == Len(s) - Len(RemoveDots(s))

(* The filter of the averaging lambdas: str(i).replace('.', '').isdigit() *)
LooksNumeric(s) == IsDigitStr(RemoveDots(s))

(* float(s) for a string of digits and dots: it raises ValueError when the  *)
(* string is no float literal, which for such a string is when it holds     *)
(* more than one decimal point.                                             *)
FloatRaises(s) == CountDots(s) > 1

DotPos(s) ==
  IF \E i \in 1..Len(s) : s[i] = "."
  THEN CHOOSE i \in 1..Len(s) : s[i] = "." /\ \A j \in 1..(i - 1) : s[j] # "."
  ELSE Len(s) + 1

(* float(s) * Scale for a float literal of digits and at most one point. *)
FloatOf(s) ==
  LET p == DotPos(s)
      ip == SubSeq(s, 1, p - 1)
      fp == SubSeq(s, p + 1, Len(s))
  IN  IntOfDigits(ip) * Scale
        + (IntOfDigits(fp) * Scale) \div Pow10(Len(fp))

(* round(n / d) to an integer, ties to even, for n >= 0 and d > 0. *)
RoundHalfEven(n, d) ==
  LET q == n \div d
      r == n % d
  IN  IF 2 * r < d THEN q
      ELSE IF 2 * r > d THEN q + 1
      ELSE IF q % 2 = 0 THEN q ELSE q + 1

(***************************************************************************)
(* webscraper.py: aggregate_champion_stats.                                *)
(*                                                                         *)
(* A raw row is a record of texts [Champion, Win_Rate, Games, KDA, CS,     *)
(* Damage, Gold, Season]; a table (a DataFrame) is a sequence of rows.     *)
(***************************************************************************)

(* Only the last table is kept. *)
ConcatLastOnly(tables) ==
  IF Len(tables) = 0 THEN << >> ELSE tables[Len(tables)]

(* pd.concat(all_data, ignore_index=True) *)
RECURSIVE Concat(_)
Concat(tables) ==
  IF Len(tables) = 0 THEN << >> ELSE Head(tables) \o Concat(Tail(tables))

(* A cell that holds no text (NaN).  No table of get_champion_stats has    *)
(* one; str.extract gives NaN for it.                                       *)
NaNText == << "NaN" >>

(* The end of the run of digits that starts at i: the first position from  *)
(* i on that holds no digit.                                                *)
RunEnd(s, i) ==
  IF \E j \in i..Len(s) : ~IsDigit(s[j])
  THEN CHOOSE j \in i..Len(s) :
         ~IsDigit(s[j]) /\ \A k \in i..(j - 1) : IsDigit(s[k])
  ELSE Len(s) + 1

(* The pattern without its space, r'(\d+)W(\d+)L'. *)
MatchesAtNoSpace(s, i) ==
  /\ i <= Len(s)
  /\ IsDigit(s[i])
  /\ LET j == RunEnd(s, i)
     IN  /\ j + 1 <= Len(s)
         /\ s[j] = "W"
         /\ IsDigit(s[j + 1])
         /\ LET k == RunEnd(s, j + 1)
            IN  k <= Len(s) /\ s[k] = "L"

(* Whether r'(\d+)W (\d+)L' matches s from position i on.  Both groups are  *)
(* greedy and what follows each is no digit, so each group is a whole run.  *)
MatchesAt(s, i) ==
  /\ i <= Len(s)
  /\ IsDigit(s[i])
  /\ LET j == RunEnd(s, i)
     IN  /\ j + 2 <= Len(s)
         /\ s[j] = "W"
         /\ s[j + 1] = " "
         /\ IsDigit(s[j + 2])
         /\ LET k == RunEnd(s, j + 2)
            IN  k <= Len(s) /\ s[k] = "L"

(* Series.str.extract(r'(\d+)W (\d+)L'), then fillna(0).astype(int): the    *)
(* groups of the first (leftmost) match, as integers, and 0 for no match.   *)
ExtractWL(s) ==
  IF s = NaNText \/ ~\E i \in 1..Len(s) : MatchesAt(s, i)
  THEN [Wins |-> 0, Losses |-> 0]
  ELSE LET i == CHOOSE a \in 1..Len(s) :
                  MatchesAt(s, a) /\ \A b \in 1..(a - 1) : ~MatchesAt(s, b)
           j == RunEnd(s, i)
           k == RunEnd(s, j + 2)
       IN  [Wins |-> IntOfDigits(SubSeq(s, i, j - 1)),
            Losses |-> IntOfDigits(SubSeq(s, j + 2, k - 1))]

(* combined_df with its Wins and Losses columns. *)
WithWinsLosses(df) ==
  [i \in 1..Len(df) |->
     [Champion |-> df[i].Champion, Games |-> df[i].Games, KDA |-> df[i].KDA,
      CS |-> df[i].CS, Damage |-> df[i].Damage, Gold |-> df[i].Gold,
      Wins |-> ExtractWL(df[i].Games).Wins,
      Losses |-> ExtractWL(df[i].Games).Losses]]

(* The keys of groupby('Champion'): the distinct names, sorted. *)
RECURSIVE SortedNames(_)
SortedNames(S) ==
  IF S = {} THEN << >>
  ELSE LET m == CHOOSE x \in S : \A y \in S \ {x} : StrLess(x, y)
       IN  << m >> \o SortedNames(S \ {m})

GroupKeys(df) == SortedNames({df[i].Champion : i \in 1..Len(df)})

GroupRows(df, name) == SelectSeq(df, LAMBDA r : r.Champion = name)

RECURSIVE SumInts(_)
SumInts(xs) == IF Len(xs) = 0 THEN 0 ELSE Head(xs) + SumInts(Tail(xs))

(* sum(float(i) for i in x if str(i).replace('.', '').isdigit()), times     *)
(* Scale.                                                                   *)
NumericSum(texts) ==
  SumInts([i \in 1..Len(texts) |->
             IF LooksNumeric(texts[i]) THEN FloatOf(texts[i]) ELSE 0])

(* The divisor of the averaging lambdas. *)
MeanDivisor(texts) == Len(texts)

(* Whether an averaging lambda raises: float() of a text that passes the   *)
(* filter and is no float literal.                                          *)
MeanRaises(texts) ==
  \E i \in 1..Len(texts) : LooksNumeric(texts[i]) /\ FloatRaises(texts[i])

(* round(sum(...) / len(x), digits), as an integer count of 10^-digits. *)
MeanOf(texts, digits) ==
  RoundHalfEven(NumericSum(texts) * Pow10(digits), Scale * MeanDivisor(texts))

Column(rows, f) == [i \in 1..Len(rows) |-> rows[i][f]]

(* aggregated['Total Games'] *)
TotalGames(wins, losses) == wins + losses

(* The win rate cut to one decimal instead of rounded. *)
WinRateTruncated(wins, total) ==
  (wins * 1000) \div (IF total # 0 THEN total ELSE 1)

(* round(Wins.div(Total Games.where(Total Games != 0, 1)) * 100, 1), in     *)
(* tenths of a percent.                                                     *)
WinRateOf(wins, total) ==
  RoundHalfEven(wins * 1000, IF total # 0 THEN total ELSE 1)

(* One record of the groupby(...).agg(...) with Total Games and the numeric *)
(* Win Rate: KDA in hundredths, CS in tenths, Damage and Gold in units.     *)
GroupRecord(df, name) ==
  LET g == GroupRows(df, name)
      w == SumInts(Column(g, "Wins"))
      l == SumInts(Column(g, "Losses"))
  IN  [Champion |-> name,
       Total_Games |-> TotalGames(w, l),
       Win_Rate |-> WinRateOf(w, TotalGames(w, l)),
       KDA |-> MeanOf(Column(g, "KDA"), 2),
       CS |-> MeanOf(Column(g, "CS"), 1),
       Damage |-> MeanOf(Column(g, "Damage"), 0),
       Gold |-> MeanOf(Column(g, "Gold"), 0),
       Wins |-> w,
       Losses |-> l]

GroupRaises(df, name) ==
  LET g == GroupRows(df, name)
  IN  \/ MeanRaises(Column(g, "KDA"))
      \/ MeanRaises(Column(g, "CS"))
      \/ MeanRaises(Column(g, "Damage"))
      \/ MeanRaises(Column(g, "Gold"))

(* The order with the Win Rate compared as its rendered text. *)
SortsBeforeAsText(a, b) ==
  \/ a.Total_Games > b.Total_Games
  \/ /\ a.Total_Games = b.Total_Games
     /\ StrLess(NatToStr(b.Win_Rate \div 10) \o << "." >> \o NatToStr(b.Win_Rate % 10),
                NatToStr(a.Win_Rate \div 10) \o << "." >> \o NatToStr(a.Win_Rate % 10))

(* The order of sort_values(['Total Games', 'Win Rate'],                    *)
(* ascending=[False, False]): a comes before b.                             *)
SortsBefore(a, b) ==
  \/ a.Total_Games > b.Total_Games
  \/ a.Total_Games = b.Total_Games /\ a.Win_Rate > b.Win_Rate

(* The sort is stable: r goes behind every record it does not come before. *)
RECURSIVE InsertSorted(_, _)
InsertSorted(sorted, r) ==
  IF Len(sorted) = 0 THEN << r >>
  ELSE IF SortsBefore(r, Head(sorted)) THEN << r >> \o sorted
  ELSE << Head(sorted) >> \o InsertSorted(Tail(sorted), r)

RECURSIVE SortValues(_)
SortValues(recs) ==
  IF Len(recs) = 0 THEN << >>
  ELSE InsertSorted(SortValues(SubSeq(recs, 1, Len(recs) - 1)), recs[Len(recs)])

(* astype(str) + '%' of a Win Rate given in tenths: "66.7%". *)
RenderWinRate(t) ==
  NatToStr(t \div 10) \o << "." >> \o NatToStr(t % 10) \o << "%" >>

Rendered(recs) ==
  [i \in 1..Len(recs) |-> [recs[i] EXCEPT !.Win_Rate = RenderWinRate(@)]]

(* all_data as a call of aggregate_champion_stats on a list of tables that  *)
(* extends its first table in place would leave it.                         *)
AllDataAccumulated(data) ==
  IF Len(data) = 0 THEN data ELSE << Concat(data) >> \o Tail(data)

(* all_data as a call of aggregate_champion_stats leaves it: pd.concat      *)
(* (line 138) builds a new frame, lines 141-145 add their columns to that   *)
(* frame, and no line assigns to all_data or to a table of it.              *)
AllDataAfter(data) == data

(* aggregate_champion_stats(all_data): what the call does (it returns None, *)
(* it returns a table, or it raises), combined_df as the call left it, and  *)
(* the table returned.                                                      *)
aggregate_champion_stats(data) ==
  IF Len(data) = 0
  THEN [kind |-> "None", combined |-> << >>, rows |-> << >>]
  ELSE LET df == WithWinsLosses(Concat(data))
           keys == GroupKeys(df)
       IN  IF \E i \in 1..Len(keys) : GroupRaises(df, keys[i])
           THEN [kind |-> "raised", combined |-> df, rows |-> << >>]
           ELSE [kind |-> "DataFrame", combined |-> df,
                 rows |-> Rendered(SortValues(
                            [i \in 1..Len(keys) |-> GroupRecord(df, keys[i])]))]

(***************************************************************************)
(* webscraper.py: get_champion_stats.                                      *)
(*                                                                         *)
(* What the browser meets is a page:                                       *)
(*   start_ok   webdriver.Chrome(options=options) starts                   *)
(*   load_ok    driver.get(url) loads                                      *)
(*   table_ok   the wait finds the element of class rt-tbody               *)
(*   rows       the rt-tr-group elements of the table                      *)
(* A row element holds its cells; a cell is [present, has_strong,          *)
(* strong_text, text], the win-rate cell has [has_games, games_text] for   *)
(* its text-lavender-50 element as well, and the champion cell is          *)
(* [present, text].                                                        *)
(***************************************************************************)
IsSpace(c) == c = " " \/ c = "\n"

(* str.strip() *)
RECURSIVE Strip(_)
Strip(s) ==
  IF Len(s) = 0 THEN s
  ELSE IF IsSpace(s[1]) THEN Strip(Tail(s))
  ELSE IF IsSpace(s[Len(s)]) THEN Strip(SubSeq(s, 1, Len(s) - 1))
  ELSE s

(* text.split('\n') *)
RECURSIVE SplitLines(_)
SplitLines(s) ==
  IF \E i \in 1..Len(s) : s[i] = "\n"
  THEN LET i == CHOOSE a \in 1..Len(s) :
                  s[a] = "\n" /\ \A b \in 1..(a - 1) : s[b] # "\n"
       IN  << SubSeq(s, 1, i - 1) >> \o SplitLines(SubSeq(s, i + 1, Len(s)))
  ELSE << s >>

(* ''.join(c for c in s if c.isdigit() or c == '.') *)
CleanNumber(s) == SelectSeq(s, LAMBDA c : IsDigit(c) \/ c = ".")

(* x or '0' *)
OrZero(s) == IF Len(s) = 0 THEN << "0" >> ELSE s

(* Lines 58-66: the win rate and the games text of a win-rate cell. *)
WinRateAndGames(cell) ==
  IF cell.has_strong /\ cell.has_games
  THEN [win_rate |-> cell.strong_text, games |-> cell.games_text]
  ELSE LET win_rate_text == SplitLines(cell.text)
       IN  [win_rate |-> IF Len(win_rate_text) > 0
                         THEN win_rate_text[1] ELSE << "0", "%" >>,
            games |-> IF Len(win_rate_text) > 1
                      THEN win_rate_text[2] ELSE << "0", "W", " ", "0", "L" >>]

(* Lines 69-94: the text of a KDA, CS, damage or gold cell. *)
CellValue(cell) ==
  IF cell.has_strong THEN cell.strong_text
  ELSE IF Len(cell.text) > 0 THEN SplitLines(cell.text)[1]
  ELSE << "0" >>

(* Whether the body of the loop over the rows (lines 51-112) appends a row: *)
(* it does not when the champion name is empty (line 55) and when a         *)
(* find_element of lines 53-90 that no inner try guards raises (line 114).  *)
RowAppended(el) ==
  /\ el.champion.present
  /\ Len(Strip(el.champion.text)) > 0
  /\ el.win_rate.present
  /\ el.kda.present
  /\ el.cs.present
  /\ el.damage.present
  /\ el.gold.present

(* The dictionary of lines 103-112. *)
ParsedRow(el, season) ==
  [Champion |-> Strip(el.champion.text),
   Win_Rate |-> WinRateAndGames(el.win_rate).win_rate,
   Games |-> WinRateAndGames(el.win_rate).games,
   KDA |-> CellValue(el.kda),
   CS |-> OrZero(CleanNumber(CellValue(el.cs))),
   Damage |-> OrZero(CleanNumber(CellValue(el.damage))),
   Gold |-> OrZero(CleanNumber(CellValue(el.gold))),
   Season |-> season]

(* champions_data after the loop over the rows. *)
RECURSIVE ChampionsData(_, _)
ChampionsData(els, season) ==
  IF Len(els) = 0 THEN << >>
  ELSE (IF RowAppended(Head(els)) THEN << ParsedRow(Head(els), season) >> ELSE << >>)
         \o ChampionsData(Tail(els), season)

(* get_champion_stats(region, summoner_name, season) on a page: the call    *)
(* raises when the browser does not start (line 33 stands before the try),  *)
(* returns None when the page does not load (lines 120-122), an empty       *)
(* DataFrame when the table does not appear (lines 42-44), and the          *)
(* DataFrame of the rows parsed otherwise.                                  *)
get_champion_stats(page, season) ==
  IF ~page.start_ok THEN [kind |-> "raised", rows |-> << >>]
  ELSE IF ~page.load_ok THEN [kind |-> "None", rows |-> << >>]
  ELSE IF ~page.table_ok THEN [kind |-> "DataFrame", rows |-> << >>]
  ELSE [kind |-> "DataFrame", rows |-> ChampionsData(page.rows, season)]

(***************************************************************************)
(* State.                                                                  *)
(*   all_data      the argument of a call of aggregate_champion_stats      *)
(*   combined_df   its local combined_df when the call ended               *)
(*   agg_result    how the call ended: [kind, rows]; kind is "pending"     *)
(*                 before the call, then "None", "DataFrame" or "raised"   *)
(*   agg_first     how the first call ended, once a second call has been   *)
(*                 made on the same all_data                               *)
(***************************************************************************)
(*                                                                         *)
(* The rate limiter (sheet_summary.py, RateLimiter).  Time is counted in   *)
(* ticks, Rate * Resolution of them to the period `per`, and the allowance *)
(* in units of 1 / Resolution of a token, so that one tick of time passed  *)
(* adds one unit (time_passed * (rate / per)).                             *)
(*   rl_now        the clock, time.time()                                  *)
(*   allowance     self.allowance                                          *)
(*   last_check    self.last_check                                         *)
(*   rl_lock       the thread that holds self.lock, 0 for none             *)
(*   th_pc         where each thread is: "idle" (outside acquire),         *)
(*                 "waiting" (at `with self.lock`), "sleeping" (in         *)
(*                 time.sleep, holding the lock)                           *)
(*   wake_at       when the sleep of the thread that holds the lock ends   *)
(*   returns       the times at which calls of acquire() have returned     *)
(*                                                                         *)
(* A call of get_champion_stats.                                           *)
(*   fetch_page    the page the call meets                                 *)
(*   fetch_result  how the call ended: [kind, rows], as agg_result         *)
(*                                                                         *)
(* build_player_summaries (sheet_summary.py).                              *)
(*   ws            the output worksheet: [exists, header, rows]; header is *)
(*                 its first row and rows are the rows below it            *)
(*   run_pc        where the call is: "idle" (no call yet), "purged"       *)
(*                 (line 175 reached), "fetch" (a fetch of the player      *)
(*                 loop about to be made), "aggregate" (line 201),         *)
(*                 "emitted" (line 229), "returned", "crashed" (the call   *)
(*                 raised; the process of __main__ has ended)              *)
(*   team_filter   the argument of the call                                *)
(*   ws_at_call    the worksheet as the call found it                      *)
(*   players       the players DataFrame of lines 155-158                  *)
(*   player_idx    the players the loop has begun                          *)
(*   account_idx, season_idx   the fetch the loop is at                    *)
(*   all_account_data          the tables collected for the player         *)
(*   aggregated_summary        how aggregate_champion_stats ended for the  *)
(*                 player: [kind, rows], kind "pending" before the call    *)
(*   outcomes      per player begun: [tables (the number of tables         *)
(*                 collected), outcome]                                    *)
(*   runs          the calls made                                          *)
(*                                                                         *)
(* The ThreadPoolExecutor of an account (lines 186-197), where the fetches *)
(* are followed step by step.                                              *)
(*   pool_open     the call is inside the `with` block of line 186         *)
(*   work_queue    the tasks submitted that no worker has taken            *)
(*   worker_pc     where each worker is: "idle", "acquire" (in             *)
(*                 rate_limiter.acquire(), line 56), "request" (in         *)
(*                 get_champion_stats, line 57: a page fetch in flight)    *)
(*   worker_task   the task a worker runs: [player, account, season]       *)
(*   fetches       the tasks whose request was issued, in that order       *)
(***************************************************************************)
VARIABLES all_data, combined_df, agg_result, agg_first,
          rl_now, allowance, last_check, rl_lock, th_pc, wake_at, returns,
          fetch_page, fetch_result,
          ws, run_pc, team_filter, ws_at_call, players, player_idx,
          account_idx, season_idx, all_account_data, aggregated_summary,
          outcomes, runs,
          pool_open, work_queue, worker_pc, worker_task, fetches

aggVars == << all_data, combined_df, agg_result, agg_first >>

rlVars == << rl_now, allowance, last_check, rl_lock, th_pc, wake_at, returns >>

fetchVars == << fetch_page, fetch_result >>

runVars ==
  << ws, run_pc, team_filter, ws_at_call, players, player_idx, account_idx,
     season_idx, all_account_data, aggregated_summary, outcomes, runs >>

poolVars == << pool_open, work_queue, worker_pc, worker_task, fetches >>

vars == << aggVars, rlVars, fetchVars, poolVars, runVars >>

(***************************************************************************)
(* sheet_summary.py: RateLimiter.                                          *)
(***************************************************************************)
Rate == 3
Resolution == 2
NumThreads == 2
MaxTime == 7
MaxAcquires == 6

Threads == 1..NumThreads

(* One token, and the period `per`, in the units of the model. *)
OneToken == Resolution
TicksPerPeriod == Rate * Resolution

(* RateLimiter.__init__: self.allowance = rate, self.last_check = now. *)
InitLimiter ==
  /\ rl_now = 0
  /\ allowance = Rate * OneToken
  /\ last_check = 0
  /\ rl_lock = 0
  /\ th_pc = [t \in Threads |-> "idle"]
  /\ wake_at = 0
  /\ returns = << >>

(* The allowance after lines 36-41: replenished for the time passed since  *)
(* last_check and capped at rate.                                           *)
Replenished ==
  LET a == allowance + (rl_now - last_check)
  IN  IF a > Rate * OneToken THEN Rate * OneToken ELSE a

(* (1.0 - self.allowance) * (self.per / self.rate), in ticks. *)
WaitTime(a) == OneToken - a

(* Time passes. *)
Tick ==
  /\ rl_now < MaxTime
  /\ rl_now' = rl_now + 1
  /\ UNCHANGED << allowance, last_check, rl_lock, th_pc, wake_at, returns >>

(* A thread calls acquire() and reaches `with self.lock`. *)
AcquireCall(t) ==
  /\ th_pc[t] = "idle"
  /\ Len(returns) + Cardinality({u \in Threads : th_pc[u] # "idle"}) < MaxAcquires
  /\ th_pc' = [th_pc EXCEPT ![t] = "waiting"]
  /\ UNCHANGED << rl_now, allowance, last_check, rl_lock, wake_at, returns >>

(* The thread takes the lock and runs lines 36-47 up to the sleep: with a  *)
(* token in the allowance it takes it, leaves the lock and returns; with    *)
(* less it goes to sleep holding the lock.                                  *)
AcquireEnter(t) ==
  /\ th_pc[t] = "waiting"
  /\ rl_lock = 0
  /\ last_check' = rl_now
  /\ IF Replenished < OneToken
     THEN /\ allowance' = Replenished
          /\ wake_at' = rl_now + WaitTime(Replenished)
          /\ rl_lock' = t
          /\ th_pc' = [th_pc EXCEPT ![t] = "sleeping"]
          /\ UNCHANGED returns
     ELSE /\ allowance' = Replenished - OneToken
          /\ returns' = Append(returns, rl_now)
          /\ th_pc' = [th_pc EXCEPT ![t] = "idle"]
          /\ UNCHANGED << rl_lock, wake_at >>
  /\ UNCHANGED rl_now

(* The sleep is over (time.sleep returns no sooner than asked): line 45,   *)
(* the lock is left and acquire() returns.                                  *)
AcquireWake(t) ==
  /\ th_pc[t] = "sleeping"
  /\ rl_lock = t
  /\ rl_now >= wake_at
  /\ allowance' = 0
  /\ rl_lock' = 0
  /\ returns' = Append(returns, rl_now)
  /\ th_pc' = [th_pc EXCEPT ![t] = "idle"]
  /\ UNCHANGED << rl_now, last_check, wake_at >>

(***************************************************************************)
(* The inputs of the model.                                                *)
(***************************************************************************)
Ahri == << "A", "h", "r", "i" >>
Zed == << "Z", "e", "d" >>

ChampionNames == { Ahri, Zed }

GamesTexts ==
  { << "2", "W", " ", "1", "L" >>, << "3", "W", " ", "0", "L" >>,
    << "N", "/", "A" >> }

(* The KDA, CS, Damage and Gold texts of a row. *)
StatTexts ==
  { [KDA |-> << "4", ".", "0" >>, CS |-> << "1", "5", "0" >>,
     Damage |-> << "5", "0", "0" >>, Gold |-> << "1", "0", "0", "0" >>],
    [KDA |-> << "3", ".", "5" >>, CS |-> << "7", ".", "5" >>,
     Damage |-> << "0" >>, Gold |-> << "5" >>],
    [KDA |-> << "N", "/", "A" >>, CS |-> << "." >>,
     Damage |-> << >>, Gold |-> << "N", "/", "A" >>],
    [KDA |-> << "2", ".", "0" >>, CS |-> << "1", ".", "2", ".", "3" >>,
     Damage |-> << "4", "0" >>, Gold |-> << "9" >>] }

RawRow(c, g, st) ==
  [Champion |-> c, Win_Rate |-> << "0", "%" >>, Games |-> g, KDA |-> st.KDA,
   CS |-> st.CS, Damage |-> st.Damage, Gold |-> st.Gold,
   Season |-> << "c" >>]

RawRows == { RawRow(c, g, st) : c \in ChampionNames, g \in GamesTexts, st \in StatTexts }

(* rows cut into tables: a table ends at i when cuts[i]. *)
RECURSIVE Split(_, _)
Split(rows, cuts) ==
  IF Len(rows) = 0 THEN << >>
  ELSE IF \E i \in 1..(Len(rows) - 1) : cuts[i]
  THEN LET i == CHOOSE a \in 1..(Len(rows) - 1) :
                  cuts[a] /\ \A b \in 1..(a - 1) : ~cuts[b]
       IN  << SubSeq(rows, 1, i) >>
             \o Split(SubSeq(rows, i + 1, Len(rows)),
                      [k \in 1..(Len(rows) - 1 - i) |-> cuts[k + i]])
  ELSE << rows >>

(***************************************************************************)
(* The pages of the model.                                                 *)
(***************************************************************************)
StrongCell(t) ==
  [present |-> TRUE, has_strong |-> TRUE, strong_text |-> t, text |-> t]

TextCell(t) ==
  [present |-> TRUE, has_strong |-> FALSE, strong_text |-> << >>, text |-> t]

MissingCell ==
  [present |-> FALSE, has_strong |-> FALSE, strong_text |-> << >>, text |-> << >>]

WinCell(wr, g) ==
  [present |-> TRUE, has_strong |-> TRUE, strong_text |-> wr,
   has_games |-> TRUE, games_text |-> g, text |-> wr \o << "\n" >> \o g]

WinTextCell(t) ==
  [present |-> TRUE, has_strong |-> FALSE, strong_text |-> << >>,
   has_games |-> FALSE, games_text |-> << >>, text |-> t]

ChampionCell(t) == [present |-> TRUE, text |-> t]

MissingChampionCell == [present |-> FALSE, text |-> << >>]

RowElement(c, w, k, cs, d, g) ==
  [champion |-> c, win_rate |-> w, kda |-> k, cs |-> cs, damage |-> d, gold |-> g]

(* Ahri, 60%, 3W 2L, KDA 4.0, CS 150, damage 500, gold 1,000 *)
ElemAhri1 ==
  RowElement(ChampionCell(Ahri), WinCell(<< "6", "0", "%" >>, << "3", "W", " ", "2", "L" >>),
             StrongCell(<< "4", ".", "0" >>), StrongCell(<< "1", "5", "0" >>),
             StrongCell(<< "5", "0", "0" >>), StrongCell(<< "1", ",", "0", "0", "0" >>))

(* Ahri, 100%, 1W 0L, KDA 6.0, CS 170, damage 600, gold 1,100 *)
ElemAhri2 ==
  RowElement(ChampionCell(Ahri), WinCell(<< "1", "0", "0", "%" >>, << "1", "W", " ", "0", "L" >>),
             StrongCell(<< "6", ".", "0" >>), StrongCell(<< "1", "7", "0" >>),
             StrongCell(<< "6", "0", "0" >>), StrongCell(<< "1", ",", "1", "0", "0" >>))

(* Zed, on a page that has no <strong> elements: every value is read from  *)
(* the text of its cell.                                                    *)
ElemZedText ==
  RowElement(ChampionCell(<< " ", "Z", "e", "d", "\n" >>),
             WinTextCell(<< "5", "0", "%", "\n", "1", "W", " ", "1", "L" >>),
             TextCell(<< "2", ".", "0", "\n", "K", "D", "A" >>), TextCell(<< "7", ".", "5", " ", "c", "s" >>),
             TextCell(<< >>), TextCell(<< "n", "/", "a" >>))

(* Zed, with a CS text that is cleaned to "1.2.3". *)
ElemZedDots ==
  RowElement(ChampionCell(Zed), WinCell(<< "5", "0", "%" >>, << "1", "W", " ", "1", "L" >>),
             StrongCell(<< "2", ".", "0" >>), StrongCell(<< "1", ".", "2", " ", "(", ".", "3", ")" >>),
             StrongCell(<< "4", "0" >>), StrongCell(<< "9" >>))

(* A row whose champion cell is not found, and one whose name is blank. *)
ElemNoChampion ==
  RowElement(MissingChampionCell, WinCell(<< "5", "0", "%" >>, << "1", "W", " ", "1", "L" >>),
             StrongCell(<< "2", ".", "0" >>), StrongCell(<< "1" >>),
             StrongCell(<< "1" >>), StrongCell(<< "1" >>))

ElemBlankChampion ==
  RowElement(ChampionCell(<< " " >>), WinCell(<< "5", "0", "%" >>, << "1", "W", " ", "1", "L" >>),
             StrongCell(<< "2", ".", "0" >>), StrongCell(<< "1" >>),
             StrongCell(<< "1" >>), StrongCell(<< "1" >>))

(* Zed, on a page without a cell of class kda-cell. *)
ElemZedNoKda ==
  RowElement(ChampionCell(Zed), WinCell(<< "5", "0", "%" >>, << "1", "W", " ", "1", "L" >>),
             MissingCell, StrongCell(<< "1" >>),
             StrongCell(<< "1" >>), StrongCell(<< "1" >>))

RowElements ==
  { ElemAhri1, ElemAhri2, ElemZedText, ElemZedDots, ElemNoChampion,
    ElemBlankChampion, ElemZedNoKda }

Page(start_ok, load_ok, table_ok, rows) ==
  [start_ok |-> start_ok, load_ok |-> load_ok, table_ok |-> table_ok, rows |-> rows]

PageNoBrowser == Page(FALSE, TRUE, TRUE, << >>)
PageNoLoad == Page(TRUE, FALSE, TRUE, << >>)
PageNoTable == Page(TRUE, TRUE, FALSE, << >>)

(* The seasons argument: the first NumSeasons seasons of its default. *)
NumSeasons == 2

DefaultSeasons ==
  << << "c", "u", "r", "r", "e", "n", "t" >>, << "2", "4" >>, << "2", "3" >>, << "2", "2" >>, << "2", "1" >>, << "2", "0" >> >>

Seasons == SubSeq(DefaultSeasons, 1, NumSeasons)

MaxPageRows == 2

(***************************************************************************)
(* SpecFetch: get_champion_stats called on a page of at most MaxPageRows   *)
(* row elements, for any season.                                           *)
(***************************************************************************)
NoFetch ==
  /\ fetch_page = Page(TRUE, TRUE, TRUE, << >>)
  /\ fetch_result = [kind |-> "pending", rows |-> << >>]

FetchCall ==
  /\ fetch_result.kind = "pending"
  /\ \E i \in 1..Len(Seasons) :
       fetch_result' = get_champion_stats(fetch_page, Seasons[i])
  /\ UNCHANGED fetch_page

(***************************************************************************)
(* sheet_summary.py: build_player_summaries.                               *)
(***************************************************************************)
MaxRuns == 2
MaxOldRows == 2

(* The records of the input worksheet; player R of team Z is listed twice   *)
(* with the same account.                                                   *)
RosterRow(team, name, account) ==
  [TeamName |-> team, Name |-> name, AccountName |-> account]

Roster ==
  << RosterRow(<< "A" >>, << "P" >>, << "a", "1" >>),
     RosterRow(<< "A", " " >>, << "P" >>, << "a", "2" >>),
     RosterRow(<< "A" >>, << "Q" >>, << "a", "3" >>),
     RosterRow(<< "Z" >>, << "R" >>, << "a", "4" >>),
     RosterRow(<< "Z" >>, << "R" >>, << "a", "4" >>) >>

(* The teams build_player_summaries is called for; N has no player. *)
TeamFilters == { << "A" >>, << "Z" >>, << "N" >> }

(* The pages the site may serve for an account. *)
Served(account) ==
  IF account = << "a", "1" >>
  THEN { PageNoBrowser, Page(TRUE, TRUE, TRUE, << ElemAhri1 >>) }
  ELSE IF account = << "a", "2" >>
  THEN { PageNoLoad, Page(TRUE, TRUE, TRUE, << ElemAhri2 >>) }
  ELSE IF account = << "a", "3" >>
  THEN { PageNoTable, Page(TRUE, TRUE, TRUE, << ElemZedDots >>),
         Page(TRUE, TRUE, TRUE, << ElemZedText, ElemAhri2 >>) }
  ELSE { PageNoBrowser, Page(TRUE, TRUE, TRUE, << ElemZedText >>) }

(* header (line 160) *)
Header ==
  << "TeamName", "Name", "AccountName", "Champion", "Total Games", "Win Rate",
     "KDA", "CS", "Damage", "Gold", "Wins", "Losses" >>

(* A header row an earlier version of the sheet may hold. *)
OldHeader == << "TeamName", "Name", "AccountName", "Champion" >>

(* A row that an earlier run left in the output worksheet. *)
OldRow(team, name) ==
  [TeamName |-> team, Name |-> name, AccountName |-> << "o" >>,
   Champion |-> Zed, Total_Games |-> 2, Win_Rate |-> << "5", "0", ".", "0", "%" >>,
   KDA |-> 200, CS |-> 10, Damage |-> 1, Gold |-> 1, Wins |-> 1, Losses |-> 1]

OldRows ==
  { OldRow(<< "A" >>, << "P" >>), OldRow(<< "A", " " >>, << "O" >>),
    OldRow(<< "Z" >>, << "R" >>) }

NoWorksheet == [exists |-> FALSE, header |-> << >>, rows |-> << >>]

Pending == [kind |-> "pending", rows |-> << >>]

(* The state before the first call. *)
InitRun ==
  /\ \/ ws = NoWorksheet
     \/ \E h \in { Header, OldHeader } :
          \E n \in 0..MaxOldRows :
            \E r \in [1..n -> OldRows] :
              ws = [exists |-> TRUE, header |-> h, rows |-> r]
  /\ run_pc = "idle"
  /\ team_filter = << >>
  /\ ws_at_call = NoWorksheet
  /\ players = << >>
  /\ player_idx = 0
  /\ account_idx = 0
  /\ season_idx = 0
  /\ all_account_data = << >>
  /\ aggregated_summary = Pending
  /\ outcomes = << >>
  /\ runs = 0

(* No call of build_player_summaries is made. *)
NoRun ==
  /\ ws = NoWorksheet
  /\ run_pc = "idle"
  /\ team_filter = << >>
  /\ ws_at_call = NoWorksheet
  /\ players = << >>
  /\ player_idx = 0
  /\ account_idx = 0
  /\ season_idx = 0
  /\ all_account_data = << >>
  /\ aggregated_summary = Pending
  /\ outcomes = << >>
  /\ runs = 0

(* No call of aggregate_champion_stats is made. *)
NoAggregation ==
  /\ all_data = << >>
  /\ combined_df = << >>
  /\ agg_result = Pending
  /\ agg_first = Pending

(* df[df['TeamName'].str.strip() == team_filter] (line 150) *)
FilterTeam(df, team) == SelectSeq(df, LAMBDA r : Strip(r.TeamName) = team)

(* ', '.join(x.astype(str)) (line 157) *)
RECURSIVE JoinAccounts(_)
JoinAccounts(xs) ==
  IF Len(xs) = 0 THEN << >>
  ELSE IF Len(xs) = 1 THEN xs[1]
  ELSE xs[1] \o << ",", " " >> \o JoinAccounts(Tail(xs))

(* accounts_str.split(',') *)
RECURSIVE SplitCommas(_)
SplitCommas(s) ==
  IF \E i \in 1..Len(s) : s[i] = ","
  THEN LET i == CHOOSE a \in 1..Len(s) :
                  s[a] = "," /\ \A b \in 1..(a - 1) : s[b] # ","
       IN  << SubSeq(s, 1, i - 1) >> \o SplitCommas(SubSeq(s, i + 1, Len(s)))
  ELSE << s >>

(* account_names (line 180) *)
AccountNames(accounts_str) ==
  LET parts == SplitCommas(accounts_str)
  IN  [i \in 1..Len(parts) |-> Strip(parts[i])]

(* df.groupby('Name').agg({'TeamName': 'first', 'AccountName': join})       *)
(* (lines 155-158): one row per name, in the order of the names.            *)
GroupPlayers(df) ==
  LET names == SortedNames({df[i].Name : i \in 1..Len(df)})
      OfName(n) == SelectSeq(df, LAMBDA r : r.Name = n)
  IN  [i \in 1..Len(names) |->
         [Name |-> names[i],
          TeamName |-> OfName(names[i])[1].TeamName,
          AccountName |->
            JoinAccounts([k \in 1..Len(OfName(names[i])) |->
                            OfName(names[i])[k].AccountName])]]

(* get_or_create_output_worksheet (lines 105-120) *)
get_or_create_output_worksheet(sheet) ==
  IF sheet.exists
  THEN [sheet EXCEPT !.header = Header]
  ELSE [exists |-> TRUE, header |-> Header, rows |-> << >>]

(* The rows kept when the team of a row is compared as it stands. *)
KeptRowsNoStrip(rows, team) == SelectSeq(rows, LAMBDA r : r.TeamName # team)

(* The rows kept by line 171: row[0].strip() != team_filter *)
KeptRows(rows, team) == SelectSeq(rows, LAMBDA r : Strip(r.TeamName) # team)

(* What may fail from line 137 to line 173: nothing; get_sheet_data (which  *)
(* catches it and returns an empty frame); the requests of                  *)
(* get_or_create_output_worksheet, get_all_values, clear and update (which  *)
(* nothing catches).                                                        *)
RunFailures ==
  { "none", "get_sheet_data", "worksheet", "get_all_values", "clear", "update" }

ResetLoop ==
  /\ player_idx' = 0
  /\ account_idx' = 0
  /\ season_idx' = 0
  /\ all_account_data' = << >>
  /\ aggregated_summary' = Pending
  /\ outcomes' = << >>

(* build_player_summaries(team) is called and runs to line 175. *)
RunStart(team, fail) ==
  /\ run_pc \in { "idle", "returned" }
  /\ runs < MaxRuns
  /\ runs' = runs + 1
  /\ team_filter' = team
  /\ ws_at_call' = ws
  /\ ResetLoop
  /\ IF fail = "get_sheet_data" \/ Len(FilterTeam(Roster, team)) = 0
     THEN /\ run_pc' = "returned"
          /\ players' = << >>
          /\ UNCHANGED ws
     ELSE /\ players' = GroupPlayers(FilterTeam(Roster, team))
          /\ IF fail = "worksheet"
             THEN run_pc' = "crashed" /\ UNCHANGED ws
             ELSE LET out_ws == get_or_create_output_worksheet(ws)
                  IN  IF fail \in { "get_all_values", "clear" }
                      THEN run_pc' = "crashed" /\ ws' = out_ws
                      ELSE IF fail = "update"
                      THEN /\ run_pc' = "crashed"
                           /\ ws' = [out_ws EXCEPT !.header = << >>, !.rows = << >>]
                      ELSE /\ run_pc' = "purged"
                           /\ ws' = [out_ws EXCEPT
                                       !.rows = KeptRows(out_ws.rows, team)]

MorePlayers == player_idx < Len(players)

(* The loop of line 176 begins its next player (lines 177-181). *)
BeginPlayer ==
  /\ run_pc \in { "purged", "emitted" }
  /\ MorePlayers
  /\ player_idx' = player_idx + 1
  /\ account_idx' = 1
  /\ season_idx' = 1
  /\ all_account_data' = << >>
  /\ aggregated_summary' = Pending
  /\ run_pc' = "fetch"
  /\ UNCHANGED << ws, team_filter, ws_at_call, players, outcomes, runs >>

CurrentPlayer == players[player_idx]

CurrentAccounts == AccountNames(CurrentPlayer.AccountName)

(* Lines 192-197: the table of a fetch is kept when the fetch did not       *)
(* raise and returned a table that is not empty.                            *)
Collected(data, result) ==
  IF result.kind = "DataFrame" /\ Len(result.rows) > 0
  THEN Append(data, result.rows)
  ELSE data

(* One fetch_stats(region, account, season) of lines 186-197, with the page *)
(* the site serves.  The one worker of the pool runs the fetches of an      *)
(* account in the order of the seasons.                                     *)
FetchStep(page) ==
  /\ run_pc = "fetch"
  /\ page \in Served(CurrentAccounts[account_idx])
  /\ all_account_data' =
       Collected(all_account_data, get_champion_stats(page, Seasons[season_idx]))
  /\ IF season_idx < Len(Seasons)
     THEN season_idx' = season_idx + 1 /\ UNCHANGED << account_idx, run_pc >>
     ELSE IF account_idx < Len(CurrentAccounts)
     THEN season_idx' = 1 /\ account_idx' = account_idx + 1 /\ UNCHANGED run_pc
     ELSE run_pc' = "aggregate" /\ UNCHANGED << season_idx, account_idx >>
  /\ UNCHANGED << ws, team_filter, ws_at_call, players, player_idx,
                  aggregated_summary, outcomes, runs >>

(* player_rows (lines 205-220) *)
PlayerRows(player, summary) ==
  [i \in 1..Len(summary) |->
     [TeamName |-> player.TeamName, Name |-> player.Name,
      AccountName |-> player.AccountName, Champion |-> summary[i].Champion,
      Total_Games |-> summary[i].Total_Games, Win_Rate |-> summary[i].Win_Rate,
      KDA |-> summary[i].KDA, CS |-> summary[i].CS, Damage |-> summary[i].Damage,
      Gold |-> summary[i].Gold, Wins |-> summary[i].Wins,
      Losses |-> summary[i].Losses]]

Outcome(what) == [tables |-> Len(all_account_data), outcome |-> what]

(* Lines 201-229 for the player: the tables collected are aggregated and    *)
(* the rows appended; append_ok is whether append_rows succeeds.            *)
EmitStep(append_ok) ==
  /\ run_pc = "aggregate"
  /\ run_pc' = "emitted"
  /\ IF Len(all_account_data) = 0
     THEN /\ outcomes' = Append(outcomes, Outcome("no data"))
          /\ UNCHANGED << ws, aggregated_summary >>
     ELSE LET r == aggregate_champion_stats(all_account_data)
          IN  /\ aggregated_summary' = [kind |-> r.kind, rows |-> r.rows]
              /\ IF r.kind = "raised"
                 THEN /\ outcomes' = Append(outcomes, Outcome("aggregation raised"))
                      /\ UNCHANGED ws
                 ELSE IF r.kind = "None" \/ Len(r.rows) = 0
                 THEN /\ outcomes' = Append(outcomes, Outcome("aggregation empty"))
                      /\ UNCHANGED ws
                 ELSE IF append_ok
                 THEN /\ outcomes' = Append(outcomes, Outcome("emitted"))
                      /\ ws' = [ws EXCEPT
                                  !.rows = @ \o PlayerRows(CurrentPlayer, r.rows)]
                 ELSE /\ outcomes' = Append(outcomes, Outcome("append failed"))
                      /\ UNCHANGED ws
  /\ UNCHANGED << team_filter, ws_at_call, players, player_idx, account_idx,
                  season_idx, all_account_data, runs >>

(* The loop has no player left: line 231, and the call returns. *)
RunReturn ==
  /\ run_pc \in { "purged", "emitted" }
  /\ ~MorePlayers
  /\ run_pc' = "returned"
  /\ UNCHANGED << ws, team_filter, ws_at_call, players, player_idx, account_idx,
                  season_idx, all_account_data, aggregated_summary, outcomes, runs >>

(***************************************************************************)
(* sheet_summary.py: the fetches of an account, step by step.  The worker  *)
(* threads of the pool are threads of the rate limiter.                    *)
(***************************************************************************)
MaxWorkers == 1

Workers == 1..MaxWorkers

NoTask == [player |-> 0, account |-> 0, season |-> 0]

(* No pool has been made. *)
NoPool ==
  /\ pool_open = FALSE
  /\ work_queue = << >>
  /\ worker_pc = [w \in Workers |-> "idle"]
  /\ worker_task = [w \in Workers |-> NoTask]
  /\ fetches = << >>

(* Lines 186-190: the pool of the account is made and a fetch_stats task is *)
(* submitted for every season.                                              *)
SubmitSeasons ==
  /\ run_pc = "fetch"
  /\ ~pool_open
  /\ pool_open' = TRUE
  /\ work_queue' = [i \in 1..Len(Seasons) |->
                     [player |-> player_idx, account |-> account_idx, season |-> i]]
  /\ UNCHANGED << worker_pc, worker_task, fetches >>

(* A worker that is free takes the next task and calls fetch_stats, which   *)
(* calls rate_limiter.acquire() (line 56).                                  *)
WorkerTake(w) ==
  /\ worker_pc[w] = "idle"
  /\ Len(work_queue) > 0
  /\ worker_task' = [worker_task EXCEPT ![w] = Head(work_queue)]
  /\ work_queue' = Tail(work_queue)
  /\ worker_pc' = [worker_pc EXCEPT ![w] = "acquire"]
  /\ AcquireCall(w)
  /\ UNCHANGED << pool_open, fetches >>

(* acquire() has returned: the worker calls get_champion_stats (line 57),   *)
(* which issues the request.                                                *)
WorkerRequest(w) ==
  /\ worker_pc[w] = "acquire"
  /\ th_pc[w] = "idle"
  /\ worker_pc' = [worker_pc EXCEPT ![w] = "request"]
  /\ fetches' = Append(fetches, worker_task[w])
  /\ UNCHANGED << pool_open, work_queue, worker_task >>

(* get_champion_stats ends on the page the site serves; the result of the   *)
(* future is collected by lines 191-197.                                    *)
WorkerDone(w, page) ==
  /\ worker_pc[w] = "request"
  /\ page \in Served(AccountNames(players[worker_task[w].player].AccountName)
                                     [worker_task[w].account])
  /\ all_account_data' =
       Collected(all_account_data,
                 get_champion_stats(page, Seasons[worker_task[w].season]))
  /\ worker_pc' = [worker_pc EXCEPT ![w] = "idle"]
  /\ worker_task' = [worker_task EXCEPT ![w] = NoTask]
  /\ UNCHANGED << pool_open, work_queue, fetches >>
  /\ UNCHANGED << ws, run_pc, team_filter, ws_at_call, players, player_idx,
                  account_idx, season_idx, aggregated_summary, outcomes, runs >>

(* The `with` block is left without waiting for the tasks of the pool. *)
PoolNotAwaited == TRUE

(* The `with` block of line 186 is left when every task of the pool is      *)
(* done: as_completed (line 191) has yielded every future, and the exit of  *)
(* the block shuts the pool down with wait=True.                            *)
PoolDrained ==
  /\ Len(work_queue) = 0
  /\ \A w \in Workers : worker_pc[w] = "idle"

(* The block is left (line 198): the loop of line 183 goes to the next      *)
(* account, or to line 201 after the last.                                  *)
PoolExit ==
  /\ run_pc = "fetch"
  /\ pool_open
  /\ PoolDrained
  /\ pool_open' = FALSE
  /\ IF account_idx < Len(CurrentAccounts)
     THEN account_idx' = account_idx + 1 /\ UNCHANGED run_pc
     ELSE run_pc' = "aggregate" /\ UNCHANGED account_idx
  /\ UNCHANGED << work_queue, worker_pc, worker_task, fetches >>
  /\ UNCHANGED << ws, team_filter, ws_at_call, players, player_idx, season_idx,
                  all_account_data, aggregated_summary, outcomes, runs >>

(***************************************************************************)
(* SpecAgg: aggregate_champion_stats called on a list of at most MaxRows   *)
(* raw rows in non-empty tables.                                           *)
(***************************************************************************)
InitAgg ==
  /\ \E n \in 0..MaxRows :
       \E rows \in [1..n -> RawRows] :
         \E cuts \in [1..(n - 1) -> BOOLEAN] :
           all_data = Split(rows, cuts)
  /\ combined_df = << >>
  /\ agg_result = Pending
  /\ agg_first = Pending
  /\ InitLimiter
  /\ NoFetch
  /\ NoRun
  /\ NoPool

AggregateCall ==
  /\ agg_result.kind = "pending"
  /\ LET r == aggregate_champion_stats(all_data)
     IN  /\ combined_df' = r.combined
         /\ agg_result' = [kind |-> r.kind, rows |-> r.rows]
  /\ all_data' = AllDataAfter(all_data)
  /\ UNCHANGED << agg_first, rlVars, fetchVars, poolVars, runVars >>

NextAgg == AggregateCall

SpecAgg == InitAgg /\ [][NextAgg]_vars

(***************************************************************************)
(* SpecRepeat: as SpecAgg, and aggregate_champion_stats is called a second *)
(* time on the list that the first call was given.                         *)
(***************************************************************************)
AggregateAgain ==
  /\ agg_result.kind # "pending"
  /\ agg_first.kind = "pending"
  /\ agg_first' = agg_result
  /\ LET r == aggregate_champion_stats(all_data)
     IN  /\ combined_df' = r.combined
         /\ agg_result' = [kind |-> r.kind, rows |-> r.rows]
  /\ all_data' = AllDataAfter(all_data)
  /\ UNCHANGED << rlVars, fetchVars, poolVars, runVars >>

NextRepeat == AggregateCall \/ AggregateAgain

SpecRepeat == InitAgg /\ [][NextRepeat]_vars

(***************************************************************************)
(* SpecExtract: aggregate_champion_stats called on one row whose Games     *)
(* text is any text of at most MaxTextLen characters of GamesChars, or no  *)
(* text at all.                                                            *)
(***************************************************************************)
GamesChars == { "0", "1", "W", "L", " " }

TextsUpTo(n) == UNION { [1..k -> GamesChars] : k \in 0..n }

InitExtract ==
  /\ \E g \in TextsUpTo(MaxTextLen) \cup { NaNText } :
       \E st \in { x \in StatTexts : x.Damage # << >> /\ x.Gold # << "5" >> } :
         all_data = << << RawRow(Ahri, g, st) >> >>
  /\ combined_df = << >>
  /\ agg_result = Pending
  /\ agg_first = Pending
  /\ InitLimiter
  /\ NoFetch
  /\ NoRun
  /\ NoPool

SpecExtract == InitExtract /\ [][NextAgg]_vars

(***************************************************************************)
(* SpecLimiter: NumThreads threads call acquire() on one RateLimiter at    *)
(* any times, MaxAcquires calls in all, until the clock reaches MaxTime.   *)
(***************************************************************************)
InitRL == NoAggregation /\ InitLimiter /\ NoFetch /\ NoRun /\ NoPool

NextRL ==
  \/ Tick /\ UNCHANGED << aggVars, fetchVars, poolVars, runVars >>
  \/ \E t \in Threads : AcquireCall(t) /\ UNCHANGED << aggVars, fetchVars, poolVars, runVars >>
  \/ \E t \in Threads : AcquireEnter(t) /\ UNCHANGED << aggVars, fetchVars, poolVars, runVars >>
  \/ \E t \in Threads : AcquireWake(t) /\ UNCHANGED << aggVars, fetchVars, poolVars, runVars >>

SpecLimiter == InitRL /\ [][NextRL]_vars

(***************************************************************************)
(* SpecFetch (see FetchCall).                                              *)
(***************************************************************************)
InitFetch ==
  /\ \E a \in BOOLEAN, b \in BOOLEAN, c \in BOOLEAN :
       \E n \in 0..MaxPageRows :
         \E els \in [1..n -> RowElements] :
           fetch_page = Page(a, b, c, els)
  /\ fetch_result = Pending
  /\ NoAggregation
  /\ InitLimiter
  /\ NoRun
  /\ NoPool

NextFetch == FetchCall /\ UNCHANGED << aggVars, rlVars, poolVars, runVars >>

SpecFetch == InitFetch /\ [][NextFetch]_vars

(***************************************************************************)
(* Spec: build_player_summaries called up to MaxRuns times, each time for  *)
(* any team of TeamFilters, on an output worksheet that at first does not  *)
(* exist or holds up to MaxOldRows rows of earlier runs.                   *)
(***************************************************************************)
Init == InitRun /\ NoAggregation /\ InitLimiter /\ NoFetch /\ NoPool

Next ==
  \/ \E team \in TeamFilters, fail \in RunFailures :
       RunStart(team, fail) /\ UNCHANGED << aggVars, rlVars, fetchVars, poolVars >>
  \/ BeginPlayer /\ UNCHANGED << aggVars, rlVars, fetchVars, poolVars >>
  \/ \E page \in UNION { Served(r.AccountName) : r \in { Roster[i] : i \in 1..Len(Roster) } } :
       FetchStep(page) /\ UNCHANGED << aggVars, rlVars, fetchVars, poolVars >>
  \/ \E append_ok \in BOOLEAN :
       EmitStep(append_ok) /\ UNCHANGED << aggVars, rlVars, fetchVars, poolVars >>
  \/ RunReturn /\ UNCHANGED << aggVars, rlVars, fetchVars, poolVars >>

Spec == Init /\ [][Next]_vars

(***************************************************************************)
(* SpecPool: one call of build_player_summaries, for any team, with the    *)
(* fetches followed step by step: the tasks of the pool, the worker in     *)
(* acquire() and in get_champion_stats, and the clock of the rate limiter, *)
(* on the pages of PoolPages.                                              *)
(***************************************************************************)
InitPool == Init /\ ws = NoWorksheet

(* The pages served: every fetch may fail, and a fetch of account a1 may    *)
(* give a table.                                                            *)
PoolPages ==
  { PageNoBrowser, PageNoLoad, PageNoTable, Page(TRUE, TRUE, TRUE, << ElemAhri1 >>) }

NextPool ==
  \/ \E team \in TeamFilters :
       /\ runs = 0
       /\ RunStart(team, "none")
       /\ UNCHANGED << aggVars, rlVars, fetchVars, poolVars >>
  \/ BeginPlayer /\ UNCHANGED << aggVars, rlVars, fetchVars, poolVars >>
  \/ SubmitSeasons /\ UNCHANGED << aggVars, rlVars, fetchVars, runVars >>
  \/ \E w \in Workers :
       /\ WorkerTake(w)
       /\ UNCHANGED << aggVars, fetchVars, runVars >>
  \/ Tick /\ UNCHANGED << aggVars, fetchVars, poolVars, runVars >>
  \/ \E w \in Workers :
       AcquireEnter(w) /\ UNCHANGED << aggVars, fetchVars, poolVars, runVars >>
  \/ \E w \in Workers :
       AcquireWake(w) /\ UNCHANGED << aggVars, fetchVars, poolVars, runVars >>
  \/ \E w \in Workers :
       WorkerRequest(w) /\ UNCHANGED << aggVars, rlVars, fetchVars, runVars >>
  \/ \E w \in Workers :
       \E page \in PoolPages :
         WorkerDone(w, page) /\ UNCHANGED << aggVars, rlVars, fetchVars >>
  \/ PoolExit /\ UNCHANGED << aggVars, rlVars, fetchVars >>
  \/ \E append_ok \in BOOLEAN :
       EmitStep(append_ok) /\ UNCHANGED << aggVars, rlVars, fetchVars, poolVars >>
  \/ RunReturn /\ UNCHANGED << aggVars, rlVars, fetchVars, poolVars >>

SpecPool == InitPool /\ [][NextPool]_vars

(* The calls of acquire() that returned in the window of one period that   *)
(* starts at s.                                                             *)
ReturnsInWindow(s) ==
  { i \in 1..Len(returns) : s <= returns[i] /\ returns[i] < s + TicksPerPeriod }

(* C2: whatever the threads and the times of their calls, no more than     *)
(* `rate` calls of acquire() return within any window of `per` seconds.     *)
C2_SlidingWindow ==
  \A s \in 0..MaxTime : Cardinality(ReturnsInWindow(s)) <= Rate

(***************************************************************************)
(* Properties of aggregate_champion_stats.                                 *)
(***************************************************************************)
Returned == agg_result.kind = "DataFrame"

(* The rows of the input that belong to a champion. *)
InputRows(name) == SelectSeq(Concat(all_data), LAMBDA r : r.Champion = name)

NumericOnly(texts) == SelectSeq(texts, LooksNumeric)

(* The mean over the numeric texts alone, rounded to digits decimals, as a *)
(* count of 10^-digits.                                                     *)
MeanOverNumeric(texts, digits) ==
  RoundHalfEven(
    SumInts([i \in 1..Len(NumericOnly(texts)) |-> FloatOf(NumericOnly(texts)[i])])
      * Pow10(digits),
    Scale * Len(NumericOnly(texts)))

FieldIsMeanOverNumeric(rec, f, digits) ==
  LET texts == Column(InputRows(rec.Champion), f)
  IN  Len(NumericOnly(texts)) > 0 => rec[f] = MeanOverNumeric(texts, digits)

(* C1: in every record returned, each of KDA, CS, Damage and Gold is the    *)
(* arithmetic mean over the rows of its champion whose text is numeric:     *)
(* the other rows count neither in the sum nor in the divisor.              *)
C1_MeanExcludesNonNumeric ==
  Returned =>
    \A i \in 1..Len(agg_result.rows) :
      /\ FieldIsMeanOverNumeric(agg_result.rows[i], "KDA", 2)
      /\ FieldIsMeanOverNumeric(agg_result.rows[i], "CS", 1)
      /\ FieldIsMeanOverNumeric(agg_result.rows[i], "Damage", 0)
      /\ FieldIsMeanOverNumeric(agg_result.rows[i], "Gold", 0)

(* C3: a call on a non-empty input never raises, whatever the KDA, CS,      *)
(* Damage and Gold texts are: it returns a table.                           *)
C3_NeverRaises ==
  (Len(all_data) > 0 /\ agg_result.kind # "pending") => Returned

(* The value, in tenths, of a text "<digits>.<digit>%"; -1 for other text. *)
PctTenths(s) ==
  IF /\ Len(s) >= 4
     /\ s[Len(s)] = "%"
     /\ IsDigit(s[Len(s) - 1])
     /\ s[Len(s) - 2] = "."
     /\ IsDigitStr(SubSeq(s, 1, Len(s) - 3))
  THEN 10 * IntOfDigits(SubSeq(s, 1, Len(s) - 3)) + DigitVal(s[Len(s) - 1])
  ELSE -1

Abs(x) == IF x < 0 THEN -x ELSE x

(* r tenths is wins / total * 100 rounded to one decimal, ties to even. *)
IsRoundedPct(r, wins, total) ==
  /\ 2 * Abs(r * total - 1000 * wins) <= total
  /\ 2 * Abs(r * total - 1000 * wins) = total => r % 2 = 0

(* C4: every record returned has total_games = wins + losses, and its       *)
(* win_rate is wins / total_games * 100 rounded to one decimal and followed *)
(* by '%' when total_games > 0, and "0.0%" when total_games = 0.            *)
C4_TotalAndWinRate ==
  Returned =>
    \A i \in 1..Len(agg_result.rows) :
      LET rec == agg_result.rows[i]
      IN  /\ rec.Total_Games = rec.Wins + rec.Losses
          /\ rec.Total_Games > 0 =>
                /\ PctTenths(rec.Win_Rate) >= 0
                /\ IsRoundedPct(PctTenths(rec.Win_Rate), rec.Wins, rec.Total_Games)
          /\ rec.Total_Games = 0 => rec.Win_Rate = << "0", ".", "0", "%" >>

(* C4 witness: a table returned with a record of no games and a record      *)
(* whose win rate had to be rounded.                                        *)
C4_Witness ==
  /\ Returned
  /\ \E i \in 1..Len(agg_result.rows) : agg_result.rows[i].Total_Games = 0
  /\ \E i \in 1..Len(agg_result.rows) :
       /\ agg_result.rows[i].Wins = 2
       /\ agg_result.rows[i].Losses = 1
       /\ agg_result.rows[i].Win_Rate = << "6", "6", ".", "7", "%" >>

(* C5: the table returned is non-increasing in total_games, and adjacent    *)
(* records of equal total_games are in non-increasing order of the numeric  *)
(* win rate.                                                                *)
C5_SortOrder ==
  Returned =>
    \A i \in 1..(Len(agg_result.rows) - 1) :
      LET a == agg_result.rows[i]
          b == agg_result.rows[i + 1]
      IN  /\ a.Total_Games >= b.Total_Games
          /\ a.Total_Games = b.Total_Games =>
                PctTenths(a.Win_Rate) >= PctTenths(b.Win_Rate)

(* C5 witness: two records of equal total_games returned, the one of 100.0% *)
(* before the one of 66.7%, which as texts are in the opposite order.       *)
C5_Witness ==
  /\ Returned
  /\ Len(agg_result.rows) = 2
  /\ agg_result.rows[1].Total_Games = agg_result.rows[2].Total_Games
  /\ agg_result.rows[1].Win_Rate = << "1", "0", "0", ".", "0", "%" >>
  /\ agg_result.rows[2].Win_Rate = << "6", "6", ".", "7", "%" >>

(* t is "<W>W <L>L" with W and L strings of digits. *)
IsWLText(t) ==
  \E a \in 1..Len(t) :
    /\ IsDigitStr(SubSeq(t, 1, a))
    /\ a + 4 <= Len(t)
    /\ t[a + 1] = "W"
    /\ t[a + 2] = " "
    /\ IsDigitStr(SubSeq(t, a + 3, Len(t) - 1))
    /\ t[Len(t)] = "L"

WOf(t) ==
  IntOfDigits(SubSeq(t, 1, (CHOOSE a \in 1..(Len(t) - 1) : t[a + 1] = "W")))

LOf(t) ==
  IntOfDigits(SubSeq(t, (CHOOSE a \in 1..Len(t) : t[a] = " ") + 1, Len(t) - 1))

(* The pattern occurs nowhere in s. *)
NoWLInside(s) ==
  \/ s = NaNText
  \/ \A i \in 1..Len(s) : \A j \in i..Len(s) : ~IsWLText(SubSeq(s, i, j))

(* C6: for every row, a games text "<W>W <L>L" gives wins = W and           *)
(* losses = L, and a games text in which the pattern does not occur, or no  *)
(* text, gives (0, 0).                                                      *)
C6_Extraction ==
  agg_result.kind # "pending" =>
    \A i \in 1..Len(combined_df) :
      LET g == Concat(all_data)[i].Games
          r == combined_df[i]
      IN  /\ (g # NaNText /\ IsWLText(g)) => (r.Wins = WOf(g) /\ r.Losses = LOf(g))
          /\ NoWLInside(g) => (r.Wins = 0 /\ r.Losses = 0)

(* C6 witness: the call has run on a row whose games text is "10W 1L" and   *)
(* has extracted 10 wins and 1 loss.                                        *)
C6_Witness ==
  /\ agg_result.kind # "pending"
  /\ Len(combined_df) = 1
  /\ combined_df[1].Games = << "1", "0", "W", " ", "1", "L" >>
  /\ combined_df[1].Wins = 10
  /\ combined_df[1].Losses = 1
(***************************************************************************)
(* Properties of build_player_summaries.                                   *)
(***************************************************************************)
Last(seq) == seq[Len(seq)]

JustEmitted ==
  /\ run_pc = "emitted"
  /\ Len(outcomes) > 0
  /\ Last(outcomes).outcome = "emitted"

(* The rows the call has just appended for the player. *)
EmittedRows ==
  SubSeq(ws.rows, Len(ws.rows) - Len(aggregated_summary.rows) + 1, Len(ws.rows))

(* The wins and losses a games text "<W>W <L>L" states. *)
StatedWins(g) == IF IsWLText(g) THEN WOf(g) ELSE 0
StatedLosses(g) == IF IsWLText(g) THEN LOf(g) ELSE 0

(* The sum over every row of every table fetched for the player. *)
SumOverFetched(F(_)) ==
  SumInts([t \in 1..Len(all_account_data) |->
             SumInts([j \in 1..Len(all_account_data[t]) |->
                        F(all_account_data[t][j])])])

ChampionsFetched ==
  UNION { { all_account_data[t][j].Champion : j \in 1..Len(all_account_data[t]) } :
          t \in 1..Len(all_account_data) }

(* The tables of the scenario: account a1 gives Ahri 3W 2L, KDA 4.0, CS 150, *)
(* damage 500, gold 1000, account a2 gives Ahri 1W 0L, KDA 6.0, CS 170,      *)
(* damage 600, gold 1100, and no other fetch gives a table.                  *)
IsScenarioRow(r, games, kda, cs, damage, gold) ==
  /\ r.Champion = Ahri
  /\ r.Games = games
  /\ r.KDA = kda
  /\ r.CS = cs
  /\ r.Damage = damage
  /\ r.Gold = gold

ScenarioFetched ==
  /\ Len(all_account_data) = 2
  /\ Len(all_account_data[1]) = 1
  /\ Len(all_account_data[2]) = 1
  /\ IsScenarioRow(all_account_data[1][1], << "3", "W", " ", "2", "L" >>, << "4", ".", "0" >>,
                   << "1", "5", "0" >>, << "5", "0", "0" >>, << "1", "0", "0", "0" >>)
  /\ IsScenarioRow(all_account_data[2][1], << "1", "W", " ", "0", "L" >>, << "6", ".", "0" >>,
                   << "1", "7", "0" >>, << "6", "0", "0" >>, << "1", "1", "0", "0" >>)

ScenarioRecord(r) ==
  /\ r.Champion = Ahri
  /\ r.Total_Games = 6
  /\ r.Win_Rate = << "6", "6", ".", "7", "%" >>
  /\ r.Wins = 4
  /\ r.Losses = 2
  /\ r.KDA = 500
  /\ r.CS = 1600
  /\ r.Damage = 550
  /\ r.Gold = 1050

(* C7: the rows emitted for a player hold every champion of the rows        *)
(* fetched over all accounts and seasons exactly once, with the sums of the *)
(* wins and of the losses of all the rows of that champion; for the         *)
(* scenario the one row emitted is Ahri, 6 games, "66.7%", 4 wins,          *)
(* 2 losses, KDA 5.0, CS 160.0, damage 550, gold 1050.                      *)
C7_GroupedAcrossAccounts ==
  JustEmitted =>
    /\ \A c \in ChampionsFetched :
         Cardinality({ k \in 1..Len(EmittedRows) : EmittedRows[k].Champion = c }) = 1
    /\ \A k \in 1..Len(EmittedRows) :
         LET c == EmittedRows[k].Champion
             WinsOf(r) == IF r.Champion = c THEN StatedWins(r.Games) ELSE 0
             LossesOf(r) == IF r.Champion = c THEN StatedLosses(r.Games) ELSE 0
         IN  /\ c \in ChampionsFetched
             /\ EmittedRows[k].Name = CurrentPlayer.Name
             /\ EmittedRows[k].Wins = SumOverFetched(WinsOf)
             /\ EmittedRows[k].Losses = SumOverFetched(LossesOf)
    /\ ScenarioFetched =>
         Len(EmittedRows) = 1 /\ ScenarioRecord(EmittedRows[1])

(* C7 witness: the rows of the scenario have been fetched from the two      *)
(* accounts of a player and the one Ahri row has been emitted.              *)
C7_Witness ==
  /\ JustEmitted
  /\ ScenarioFetched
  /\ Len(CurrentAccounts) = 2
  /\ Len(EmittedRows) = 1
  /\ ScenarioRecord(EmittedRows[1])

(* The rows the worksheet holds for the i-th player of the run. *)
RowsOfPlayer(i) ==
  SelectSeq(ws.rows, LAMBDA r : r.Name = players[i].Name
                                  /\ Strip(r.TeamName) = team_filter)

(* C8: when a run returns, a player whose fetches all failed has no row in  *)
(* the worksheet, and every player after such a player has been processed   *)
(* and, when tables were collected for it (and append_rows did not fail),   *)
(* has rows in the worksheet.                                               *)
C8_FailedPlayerSkippedOthersEmitted ==
  (run_pc = "returned" /\ Len(players) > 0) =>
    /\ Len(outcomes) = Len(players)
    /\ \A i \in 1..Len(outcomes) :
         outcomes[i].tables = 0 =>
           /\ Len(RowsOfPlayer(i)) = 0
           /\ \A j \in (i + 1)..Len(outcomes) :
                (outcomes[j].tables > 0 /\ outcomes[j].outcome # "append failed")
                  => Len(RowsOfPlayer(j)) > 0

(* The rows whose team is not the team of the run. *)
OtherTeamRows(rows) == SelectSeq(rows, LAMBDA r : Strip(r.TeamName) # team_filter)

PastPurge ==
  \/ run_pc \in { "purged", "fetch", "aggregate", "emitted" }
  \/ run_pc = "returned" /\ Len(players) > 0

(* C9: once a run for team T is past the purge, the worksheet begins with   *)
(* the rows of the other teams that it held when the run was called, the    *)
(* same rows in the same order, and right after the purge it holds nothing  *)
(* else: no row of team T that was there before the run remains.            *)
C9_PurgeKeepsOtherTeams ==
  PastPurge =>
    LET kept == OtherTeamRows(ws_at_call.rows)
    IN  /\ Len(ws.rows) >= Len(kept)
        /\ SubSeq(ws.rows, 1, Len(kept)) = kept
        /\ OtherTeamRows(ws.rows) = kept
        /\ run_pc = "purged" => ws.rows = kept

(* C9 witness: a second run is just past its purge; the worksheet held rows *)
(* of its team, one of them written with a trailing space, and rows of      *)
(* another team, and holds the latter alone.                                *)
C9_Witness ==
  /\ run_pc = "purged"
  /\ runs = 2
  /\ Len(ws.rows) > 0
  /\ Len(ws_at_call.rows) > Len(ws.rows) + 1
  /\ \E i \in 1..Len(ws_at_call.rows) :
       ws_at_call.rows[i].TeamName = << "A", " " >> /\ team_filter = << "A" >>

(***************************************************************************)
(* Properties of get_champion_stats.                                       *)
(***************************************************************************)
PageFailed ==
  ~fetch_page.start_ok \/ ~fetch_page.load_ok \/ ~fetch_page.table_ok

(* C10: a call of get_champion_stats never raises: it returns a table,      *)
(* which is empty when the browser did not start, the page did not load or  *)
(* the table did not appear.                                                *)
C10_NeverRaises ==
  fetch_result.kind # "pending" =>
    /\ fetch_result.kind = "DataFrame"
    /\ PageFailed => Len(fetch_result.rows) = 0

(* The row elements whose champion name can be read and is not empty. *)
NameReadable(el) == el.champion.present /\ Len(Strip(el.champion.text)) > 0

ReadableElements == SelectSeq(fetch_page.rows, NameReadable)

(* The zero default of a KDA, CS, damage or gold field. *)
ZeroText == << "0" >>

(* C11: of a page whose table appeared, a row is dropped only when its      *)
(* champion name cannot be read or is empty: every row element with a       *)
(* readable name gives a row of the result, in the order of the page, and   *)
(* a KDA, CS, damage or gold cell that is missing gives the zero default.   *)
C11_OnlyNamelessRowsDropped ==
  (fetch_result.kind = "DataFrame" /\ ~PageFailed) =>
    /\ Len(fetch_result.rows) = Len(ReadableElements)
    /\ \A i \in 1..Len(ReadableElements) :
         /\ fetch_result.rows[i].Champion = Strip(ReadableElements[i].champion.text)
         /\ ~ReadableElements[i].kda.present => fetch_result.rows[i].KDA = ZeroText
         /\ ~ReadableElements[i].cs.present => fetch_result.rows[i].CS = ZeroText
         /\ ~ReadableElements[i].damage.present => fetch_result.rows[i].Damage = ZeroText
         /\ ~ReadableElements[i].gold.present => fetch_result.rows[i].Gold = ZeroText

(***************************************************************************)
(* Properties of the batch of __main__.                                    *)
(***************************************************************************)
(* C12: no failure inside the run of one team aborts the batch: a call of   *)
(* build_player_summaries never ends by raising, so the process goes on to  *)
(* the calls for the teams that remain.                                     *)
C12_NoFailureAbortsBatch == run_pc # "crashed"

(* The accounts the roster lists for a player of the team of the run. *)
RosterAccounts(player) ==
  { Roster[i].AccountName :
      i \in { k \in 1..Len(Roster) :
                /\ Strip(Roster[k].TeamName) = team_filter
                /\ Roster[k].Name = player.Name } }

IsDistinct(seq) ==
  \A a \in 1..Len(seq) : \A b \in 1..Len(seq) : a # b => seq[a] # seq[b]

(* C13: the account list of every player of a run holds distinct accounts,  *)
(* and when the fetches of a player are done each account the roster lists  *)
(* for the player has been fetched once per season: as many accounts have   *)
(* been gone through as the roster lists different ones.                    *)
C13_DistinctAccounts ==
  PastPurge =>
    /\ \A i \in 1..Len(players) : IsDistinct(AccountNames(players[i].AccountName))
    /\ run_pc = "aggregate" =>
         account_idx = Cardinality(RosterAccounts(CurrentPlayer))

(***************************************************************************)
(* Properties of repeated calls of aggregate_champion_stats.               *)
(***************************************************************************)
CalledTwice == agg_first.kind # "pending"

InFlight == { w \in Workers : worker_pc[w] = "request" }

(* The tasks submitted and not done. *)
OpenTasks ==
  { work_queue[i] : i \in 1..Len(work_queue) }
    \cup { worker_task[w] : w \in { v \in Workers : worker_pc[v] # "idle" } }

(* Task a comes before task b in the order of players, accounts, seasons. *)
TaskBefore(a, b) ==
  \/ a.player < b.player
  \/ a.player = b.player /\ a.account < b.account
  \/ a.player = b.player /\ a.account = b.account /\ a.season < b.season

(* C15: at most one page fetch is in flight; every task submitted and not   *)
(* done is of the player and the account the loop is at; the requests are   *)
(* issued in the order of players, accounts and seasons; no request is      *)
(* issued before a call of acquire() has returned for it; and when the      *)
(* fetches of a player are done, every season of every account was fetched. *)
C15_OneFetchInFlight ==
  /\ Cardinality(InFlight) <= 1
  /\ \A t \in OpenTasks :
       run_pc = "fetch" /\ pool_open /\ t.player = player_idx /\ t.account = account_idx
  /\ \A i \in 1..Len(fetches) : \A j \in 1..Len(fetches) :
       i < j => TaskBefore(fetches[i], fetches[j])
  /\ Len(fetches) <= Len(returns)
  /\ run_pc = "aggregate" =>
       Cardinality({ i \in 1..Len(fetches) : fetches[i].player = player_idx })
         = Len(CurrentAccounts) * Len(Seasons)

(* C15 witness: the request of the last season of the second account of a   *)
(* player is in flight, after the worker slept in acquire() for it, and the *)
(* fetches of the first account are done.                                   *)
C15_Witness ==
  /\ run_pc = "fetch"
  /\ Cardinality(InFlight) = 1
  /\ account_idx = 2
  /\ Len(fetches) = 2 * Len(Seasons)
  /\ Last(fetches) = [player |-> player_idx, account |-> 2, season |-> Len(Seasons)]
  /\ Len(returns) = Len(fetches)
  /\ Last(returns) > last_check

(***************************************************************************)
(* Properties of the rate limiter as a token bucket.                       *)
(***************************************************************************)
(* The tokens a bucket of `rate` tokens, refilled at rate / per, can have   *)
(* given out by time t, in units of 1 / Resolution of a token.              *)
BucketBound(t) == Rate * OneToken + t

(* C16: at every time t the calls of acquire() that have returned are at    *)
(* most rate + t * rate / per (the i-th return, at time returns[i], is      *)
(* within the bound of that time: time slept in acquire() is not credited   *)
(* again), and the allowance is within [0, rate].                           *)
C16_TokenBucketBound ==
  /\ \A i \in 1..Len(returns) : i * OneToken <= BucketBound(returns[i])
  /\ allowance >= 0
  /\ allowance <= Rate * OneToken
====
